---- MODULE Spec2Model ----
(***************************************************************************)
(* Model of downloader_app/download_files.py: a Streamlit script that      *)
(* connects to Snowflake, lists stages and the files of one stage, lets    *)
(* the user select files and downloads them one after the other into a     *)
(* local folder.  Streamlit runs main() from top to bottom on every rerun; *)
(* st.session_state and the local file system survive between reruns.      *)
(* Strings are sequences of one-character strings.                         *)
(***************************************************************************)
EXTENDS Integers, Sequences, FiniteSets

VARIABLES
    hasSession,        \* 'session' in st.session_state
    localFiles,        \* local file system: folder -> set of file names present
    env,               \* what the outside world may answer: fetch outcomes per stage path, makedirs outcomes per folder, LIST results
    reruns,            \* number of script runs started so far
    runNo,             \* number of the batch within a repeated-batch scenario
    prevSucceeded,     \* names reported as downloaded by the previous batch of that scenario
    pc,                \* position of the script run within main()
    download_folder,   \* st.text_input value
    stages,            \* get_stages_list(session)
    selected_stage,    \* st.selectbox value
    list_result,       \* rows of the LIST query, line 48
    files_df,          \* get_stage_files(session, selected_stage)
    selected_files,    \* edited_df[edited_df['Select'] == True]
    success_count,
    total_files,
    downloaded_files,
    failed_files,
    idx,               \* enumerate index of the download loop
    call,              \* the download_file_from_stage call in progress
    results,           \* per processed file: what its call met and returned
    events,            \* what the run did, in order: labels, fetch calls, recordings, progress updates
    errors,            \* st.error / error-container messages shown by this run
    report             \* the final status block shown by this run

vars == <<hasSession, localFiles, env, reruns, runNo, prevSucceeded, pc,
          download_folder, stages, selected_stage, list_result, files_df,
          selected_files, success_count, total_files, downloaded_files, failed_files, idx,
          call, results, events, errors, report>>

(***************************************************************************)
(* Bounds of the model.                                                    *)
(***************************************************************************)
MaxListed == 3      \* most rows a LIST result has
MaxReruns == 2      \* script runs explored per interactive session
MaxPathLen == 4     \* longest stage path of the one-row listings

(***************************************************************************)
(* Strings.                                                                *)
(***************************************************************************)
Last(s) == s[Len(s)]

Contains(s, c) == \E i \in DOMAIN s : s[i] = c

\* str.split(sep) for a one-character separator
RECURSIVE split(_, _)
split(s, sep) ==
    IF s = <<>> THEN << <<>> >>
    ELSE LET rest == split(Tail(s), sep)
         IN  IF Head(s) = sep
             THEN << <<>> >> \o rest
             ELSE << <<Head(s)>> \o Head(rest) >> \o Tail(rest)

\* str.lower() on the alphabet of the model
lowerChar(c) ==
    CASE c = "A" -> "a"
      [] c = "B" -> "b"
      [] c = "C" -> "c"
      [] c = "T" -> "t"
      [] OTHER   -> c

lower(s) == [i \in DOMAIN s |-> lowerChar(s[i])]

unknown == <<"u", "n", "k", "n", "o", "w", "n">>

\* FileNameOf that keeps the first path segment instead of the last
FileNameOfFirstSegment(file_path) ==
    IF Contains(file_path, "/") THEN Head(split(file_path, "/")) ELSE file_path

\* line 53
FileNameOf(file_path) ==
    IF Contains(file_path, "/") THEN Last(split(file_path, "/")) ELSE file_path

\* FileTypeOf without .lower()
FileTypeOfNoLower(file_name) ==
    IF Contains(file_name, ".") THEN Last(split(file_name, ".")) ELSE unknown

\* line 58
FileTypeOf(file_name) ==
    IF Contains(file_name, ".") THEN lower(Last(split(file_name, "."))) ELSE unknown

\* lines 50-69: one DataFrame row per row of the LIST result
get_stage_files(result) ==
    [i \in DOMAIN result |->
        [FileName |-> FileNameOf(result[i]),
         FileType |-> FileTypeOf(FileNameOf(result[i])),
         FilePath |-> result[i]]]

(***************************************************************************)
(* The outside world.                                                      *)
(***************************************************************************)
\* Stage paths a LIST may return, in the order the warehouse returns them.
\* Two of them share their last path segment.
Catalog == << <<"d", "/", "b">>, <<"a", ".", "C">>, <<"e", "/", "b">>, <<"c">> >>

CatalogNames == {FileNameOf(Catalog[i]) : i \in DOMAIN Catalog}

\* all sub-sequences of s (order kept) picked by a set of positions
RECURSIVE Pick(_, _)
Pick(s, keep) ==
    IF s = <<>> THEN <<>>
    ELSE LET front == Pick(SubSeq(s, 1, Len(s) - 1), keep)
         IN  IF Len(s) \in keep THEN Append(front, Last(s)) ELSE front

Listings == {Pick(Catalog, keep) : keep \in {k \in SUBSET DOMAIN Catalog : Cardinality(k) <= MaxListed}}

StageLists == {<<>>, <<"S1", "S2">>}

\* what the user may type as download folder: nothing, or a folder
FolderInputs == {<<>>, <<"D">>}

\* session.file.get: returns or raises, and has or has not written the file
FetchOutcomes == {"ok", "none", "raise", "partial"}
Returned(out) == out \in {"ok", "none"}
Wrote(out) == out \in {"ok", "partial"}

AnyEnv == [fetch    |-> [p \in {Catalog[i] : i \in DOMAIN Catalog} |-> FetchOutcomes],
           makedirs |-> [d \in FolderInputs |-> BOOLEAN],
           list     |-> Listings]

\* os.makedirs(folder, exist_ok=True): the empty path always raises
MakedirsOutcomes(folder) == IF folder = <<>> THEN {FALSE} ELSE env.makedirs[folder]

\* one entry of the run's log: what happened, for which index (or 1 = it
\* succeeded, 0 = it failed), out of how many
Event(ev, i, n) == [ev |-> ev, i |-> i, n |-> n]

NoCall == [mk |-> FALSE, addr |-> <<>>, out |-> "nocall", existsAfter |-> FALSE, ret |-> FALSE]
NoReport == [status |-> "none", shownDownloaded |-> <<>>, shownFailed |-> <<>>]

(***************************************************************************)
(* Initial state: the process is up, no script run has started.            *)
(***************************************************************************)
FreshRun ==
    /\ download_folder = <<>>
    /\ stages = <<>>
    /\ selected_stage = ""
    /\ list_result = <<>>
    /\ files_df = <<>>
    /\ selected_files = <<>>
    /\ success_count = 0
    /\ total_files = 0
    /\ downloaded_files = <<>>
    /\ failed_files = <<>>
    /\ idx = 0
    /\ call = NoCall
    /\ results = <<>>
    /\ events = <<>>
    /\ errors = <<>>
    /\ report = NoReport

\* the same values for the run that starts
ResetRun ==
    /\ download_folder' = <<>>
    /\ stages' = <<>>
    /\ selected_stage' = ""
    /\ list_result' = <<>>
    /\ files_df' = <<>>
    /\ selected_files' = <<>>
    /\ success_count' = 0
    /\ total_files' = 0
    /\ downloaded_files' = <<>>
    /\ failed_files' = <<>>
    /\ idx' = 0
    /\ call' = NoCall
    /\ results' = <<>>
    /\ events' = <<>>
    /\ errors' = <<>>
    /\ report' = NoReport

Init ==
    /\ hasSession = FALSE
    /\ localFiles = [d \in FolderInputs |-> {}]
    /\ env = AnyEnv
    /\ reruns = 0
    /\ runNo = 0
    /\ prevSucceeded = {}
    /\ pc = "idle"
    /\ FreshRun

scenarioVars == <<env, runNo, prevSucceeded>>
inputVars == <<download_folder, stages, selected_stage, list_result, files_df, selected_files>>

(***************************************************************************)
(* main(), top to bottom.                                                  *)
(***************************************************************************)
\* Streamlit starts a script run (first load, or any widget interaction)
StartRerun ==
    /\ pc = "idle"
    /\ reruns < MaxReruns
    /\ reruns' = reruns + 1
    /\ pc' = "connect"
    /\ ResetRun
    /\ UNCHANGED <<hasSession, localFiles, scenarioVars>>

\* lines 198-207: no session stored, create_snowflake_session() returns
ConnectNew ==
    /\ pc = "connect"
    /\ ~hasSession
    /\ hasSession' = TRUE
    /\ events' = Append(events, Event("connect", 1, 1))
    /\ pc' = "folder"
    /\ UNCHANGED <<localFiles, reruns, scenarioVars, inputVars, success_count, total_files,
                   downloaded_files, failed_files, idx, call, results, errors, report>>

\* ConnectFail without the st.stop() of line 216
ConnectFailGoesOn ==
    /\ pc = "connect"
    /\ ~hasSession
    /\ events' = Append(events, Event("connect", 0, 1))
    /\ errors' = Append(errors, [kind |-> "connect_failed", arg |-> <<>>])
    /\ pc' = "folder"
    /\ UNCHANGED <<hasSession, localFiles, reruns, scenarioVars, inputVars, success_count,
                   total_files, downloaded_files, failed_files, idx, call, results, report>>

\* lines 208-216: create_snowflake_session() raises, st.stop()
ConnectFail ==
    /\ pc = "connect"
    /\ ~hasSession
    /\ events' = Append(events, Event("connect", 0, 1))
    /\ errors' = Append(errors, [kind |-> "connect_failed", arg |-> <<>>])
    /\ pc' = "idle"
    /\ UNCHANGED <<hasSession, localFiles, reruns, scenarioVars, inputVars, success_count,
                   total_files, downloaded_files, failed_files, idx, call, results, report>>

\* lines 217-225: a session is stored and is used as it is
SessionReused ==
    /\ pc = "connect"
    /\ hasSession
    /\ pc' = "folder"
    /\ UNCHANGED <<hasSession, localFiles, reruns, scenarioVars, inputVars, success_count,
                   total_files, downloaded_files, failed_files, idx, call, results, events,
                   errors, report>>

\* lines 233-248: a folder was entered and os.makedirs succeeds
FolderValidated ==
    /\ pc = "folder"
    /\ \E folder \in FolderInputs :
        /\ folder # <<>>
        /\ TRUE \in MakedirsOutcomes(folder)
        /\ download_folder' = folder
    /\ events' = Append(events, Event("validate", 1, 1))
    /\ pc' = "stages"
    /\ UNCHANGED <<hasSession, localFiles, reruns, scenarioVars, list_result, stages, selected_stage,
                   files_df, selected_files, success_count, total_files, downloaded_files,
                   failed_files, idx, call, results, errors, report>>

\* lines 249-255: a folder was entered and os.makedirs raises: message, return
FolderInvalid ==
    /\ pc = "folder"
    /\ \E folder \in FolderInputs :
        /\ folder # <<>>
        /\ FALSE \in MakedirsOutcomes(folder)
        /\ download_folder' = folder
    /\ events' = Append(events, Event("validate", 0, 1))
    /\ errors' = Append(errors, [kind |-> "invalid_folder", arg |-> <<>>])
    /\ pc' = "idle"
    /\ UNCHANGED <<hasSession, localFiles, reruns, scenarioVars, list_result, stages, selected_stage,
                   files_df, selected_files, success_count, total_files, downloaded_files,
                   failed_files, idx, call, results, report>>

\* line 241: the text input is empty, the validation block is skipped
FolderNotValidated ==
    /\ pc = "folder"
    /\ download_folder' = <<>>
    /\ pc' = "stages"
    /\ UNCHANGED <<hasSession, localFiles, reruns, scenarioVars, list_result, stages, selected_stage,
                   files_df, selected_files, success_count, total_files, downloaded_files,
                   failed_files, idx, call, results, events, errors, report>>

\* get_stages_list, lines 34-42, and lines 264-282 of main: SHOW STAGES
\* returns rows; an empty list ends the run, otherwise a stage is chosen
StagesLoaded ==
    /\ pc = "stages"
    /\ \E rows \in StageLists :
        /\ stages' = rows
        /\ IF rows = <<>>
           THEN selected_stage' = "" /\ pc' = "idle"
           ELSE (\E i \in DOMAIN rows : selected_stage' = rows[i]) /\ pc' = "files"
    /\ events' = Append(events, Event("list_stages", 1, 1))
    /\ UNCHANGED <<hasSession, localFiles, reruns, scenarioVars, list_result, download_folder, files_df,
                   selected_files, success_count, total_files, downloaded_files,
                   failed_files, idx, call, results, errors, report>>

\* get_stages_list, lines 40-42, and lines 266-273: the query raises,
\* st.error, [] is returned and the run ends
StagesFailed ==
    /\ pc = "stages"
    /\ stages' = <<>>
    /\ events' = Append(events, Event("list_stages", 0, 1))
    /\ errors' = Append(errors, [kind |-> "stages_error", arg |-> <<>>])
    /\ pc' = "idle"
    /\ UNCHANGED <<hasSession, localFiles, reruns, scenarioVars, list_result, download_folder,
                   selected_stage, files_df, selected_files, success_count, total_files,
                   downloaded_files, failed_files, idx, call, results, report>>

\* get_stage_files, lines 44-69, and lines 294-312: LIST returns rows; an
\* empty frame ends the run, otherwise total_files = len(files_df)
FilesLoaded ==
    /\ pc = "files"
    /\ \E result \in env.list :
        /\ list_result' = result
        /\ files_df' = get_stage_files(result)
        /\ IF result = <<>>
           THEN pc' = "idle" /\ UNCHANGED total_files
           ELSE pc' = "select" /\ total_files' = Len(result)
    /\ events' = Append(events, Event("list_files", 1, 1))
    /\ UNCHANGED <<hasSession, localFiles, reruns, scenarioVars, download_folder, stages,
                   selected_stage, selected_files, success_count, downloaded_files,
                   failed_files, idx, call, results, errors, report>>

\* FilesFailed without the st.error of line 71
FilesFailedSilently ==
    /\ pc = "files"
    /\ UNCHANGED list_result
    /\ files_df' = <<>>
    /\ events' = Append(events, Event("list_files", 0, 1))
    /\ pc' = "idle"
    /\ UNCHANGED <<hasSession, localFiles, reruns, scenarioVars, download_folder, stages,
                   selected_stage, selected_files, success_count, total_files,
                   downloaded_files, failed_files, idx, call, results, errors, report>>

\* get_stage_files, lines 70-72, and lines 302-309: the query raises,
\* st.error, an empty frame is returned and the run ends
FilesFailed ==
    /\ pc = "files"
    /\ UNCHANGED list_result
    /\ files_df' = <<>>
    /\ events' = Append(events, Event("list_files", 0, 1))
    /\ errors' = Append(errors, [kind |-> "files_error", arg |-> <<>>])
    /\ pc' = "idle"
    /\ UNCHANGED <<hasSession, localFiles, reruns, scenarioVars, download_folder, stages,
                   selected_stage, selected_files, success_count, total_files,
                   downloaded_files, failed_files, idx, call, results, report>>

\* FilesSelected without the guard of lines 414 and 438: the button is drawn
\* for any selection
FilesSelectedButtonAlways ==
    /\ pc = "select"
    /\ \E keep \in SUBSET DOMAIN files_df : selected_files' = Pick(files_df, keep)
    /\ pc' = "button"
    /\ UNCHANGED <<hasSession, localFiles, reruns, scenarioVars, list_result, download_folder, stages,
                   selected_stage, files_df, success_count, total_files, downloaded_files,
                   failed_files, idx, call, results, events, errors, report>>

\* lines 412-438: the rows whose Select box is ticked, in row order; the
\* download button is only drawn when there is at least one
FilesSelected ==
    /\ pc = "select"
    /\ \E keep \in SUBSET DOMAIN files_df :
        /\ selected_files' = Pick(files_df, keep)
        /\ pc' = IF Len(Pick(files_df, keep)) > 0 THEN "button" ELSE "idle"
    /\ UNCHANGED <<hasSession, localFiles, reruns, scenarioVars, list_result, download_folder, stages,
                   selected_stage, files_df, success_count, total_files, downloaded_files,
                   failed_files, idx, call, results, events, errors, report>>

\* line 440: the button was not pressed in this run, the script ends
ButtonNotPressed ==
    /\ pc = "button"
    /\ pc' = "idle"
    /\ UNCHANGED <<hasSession, localFiles, reruns, scenarioVars, inputVars, success_count,
                   total_files, downloaded_files, failed_files, idx, call, results, events,
                   errors, report>>

(***************************************************************************)
(* The download loop, lines 440-469, with download_file_from_stage,        *)
(* lines 74-95, inlined step by step.                                      *)
(***************************************************************************)
file_row == selected_files[idx + 1]
file_path == file_row.FilePath
file_name == file_row.FileName
\* line 84
stage_file_path == <<"@">> \o file_path

\* StartDownload without line 450: total_files keeps the value of line 312
StartDownloadKeepsTotal ==
    /\ pc = "button"
    /\ success_count' = 0
    /\ downloaded_files' = <<>>
    /\ failed_files' = <<>>
    /\ idx' = 0
    /\ events' = Append(events, Event("progress_bar", 0, 1))
    /\ pc' = IF Len(selected_files) > 0 THEN "label" ELSE "report"
    /\ UNCHANGED <<hasSession, localFiles, reruns, scenarioVars, inputVars, total_files, call,
                   results, errors, report>>

\* lines 440-452: the button was pressed; progress bar at 0, counters reset
StartDownload ==
    /\ pc = "button"
    /\ success_count' = 0
    /\ total_files' = Len(selected_files)
    /\ downloaded_files' = <<>>
    /\ failed_files' = <<>>
    /\ idx' = 0
    /\ events' = Append(events, Event("progress_bar", 0, 1))
    /\ pc' = IF Len(selected_files) > 0 THEN "label" ELSE "report"
    /\ UNCHANGED <<hasSession, localFiles, reruns, scenarioVars, inputVars, call, results,
                   errors, report>>

\* lines 454-458: next row of the selection, status text shows its name
LoopLabel ==
    /\ pc = "label"
    /\ events' = Append(events, Event("label", idx, total_files))
    /\ call' = NoCall
    /\ pc' = "makedirs"
    /\ UNCHANGED <<hasSession, localFiles, reruns, scenarioVars, inputVars, success_count,
                   total_files, downloaded_files, failed_files, idx, results, errors, report>>

\* lines 76-81 and 93-95: os.makedirs inside the try of
\* download_file_from_stage; if it raises the call returns False
Makedirs ==
    /\ pc = "makedirs"
    /\ \E ok \in MakedirsOutcomes(download_folder) :
        IF ok
        THEN /\ call' = [call EXCEPT !.mk = TRUE]
             /\ pc' = "fetch"
             /\ UNCHANGED errors
        ELSE /\ call' = [call EXCEPT !.ret = FALSE]
             /\ errors' = Append(errors, [kind |-> "download_error", arg |-> file_path])
             /\ pc' = "record"
    /\ UNCHANGED <<hasSession, localFiles, reruns, scenarioVars, inputVars, success_count,
                   total_files, downloaded_files, failed_files, idx, results, events, report>>

\* lines 83-85 and 93-95: session.file.get("@" + file_path, local_directory);
\* the file it writes is named after the last segment of the stage path
Fetch ==
    /\ pc = "fetch"
    /\ \E out \in env.fetch[file_path] :
        /\ localFiles' = IF Wrote(out)
                         THEN [localFiles EXCEPT ![download_folder] = @ \cup {FileNameOf(file_path)}]
                         ELSE localFiles
        /\ call' = [call EXCEPT !.addr = stage_file_path,
                                !.out = out,
                                !.existsAfter = file_name \in localFiles'[download_folder]]
        /\ IF Returned(out)
           THEN pc' = "exists" /\ UNCHANGED errors
           ELSE /\ errors' = Append(errors, [kind |-> "download_error", arg |-> file_path])
                /\ pc' = "record"
    /\ events' = Append(events, Event("fetch", idx, total_files))
    /\ UNCHANGED <<hasSession, reruns, scenarioVars, inputVars, success_count, total_files,
                   downloaded_files, failed_files, idx, results, report>>

\* ExistsCheck that trusts the return of session.file.get
ExistsCheckSkipped ==
    /\ pc = "exists"
    /\ call' = [call EXCEPT !.ret = TRUE]
    /\ pc' = "record"
    /\ UNCHANGED <<hasSession, localFiles, reruns, scenarioVars, inputVars, success_count,
                   total_files, downloaded_files, failed_files, idx, results, events, errors,
                   report>>

\* lines 87-92: os.path.exists(os.path.join(local_directory, file_name))
ExistsCheck ==
    /\ pc = "exists"
    /\ LET found == file_name \in localFiles[download_folder]
       IN  /\ call' = [call EXCEPT !.ret = found]
           /\ errors' = IF found THEN errors
                        ELSE Append(errors, [kind |-> "not_found", arg |-> file_name])
    /\ pc' = "record"
    /\ UNCHANGED <<hasSession, localFiles, reruns, scenarioVars, inputVars, success_count,
                   total_files, downloaded_files, failed_files, idx, results, events, report>>

\* Record that inserts at the front of the lists
RecordPrepends ==
    /\ pc = "record"
    /\ IF call.ret
       THEN /\ success_count' = success_count + 1
            /\ downloaded_files' = <<file_name>> \o downloaded_files
            /\ UNCHANGED failed_files
       ELSE /\ failed_files' = <<file_name>> \o failed_files
            /\ UNCHANGED <<success_count, downloaded_files>>
    /\ results' = Append(results, call)
    /\ events' = Append(events, Event("record", idx, total_files))
    /\ pc' = "progress"
    /\ UNCHANGED <<hasSession, localFiles, reruns, scenarioVars, inputVars, total_files, idx,
                   call, errors, report>>

\* Record without the else branch of lines 464-465: a failed file is not
\* kept anywhere
RecordDropsFailed ==
    /\ pc = "record"
    /\ IF call.ret
       THEN /\ success_count' = success_count + 1
            /\ downloaded_files' = Append(downloaded_files, file_name)
       ELSE UNCHANGED <<success_count, downloaded_files>>
    /\ UNCHANGED failed_files
    /\ results' = Append(results, call)
    /\ events' = Append(events, Event("record", idx, total_files))
    /\ pc' = "progress"
    /\ UNCHANGED <<hasSession, localFiles, reruns, scenarioVars, inputVars, total_files, idx,
                   call, errors, report>>

\* Record that sends a file whose fetch failed back to the fetch, once
RecordRetriesOnce ==
    /\ pc = "record"
    /\ IF ~call.ret /\ call.mk /\ Cardinality({p \in DOMAIN events : events[p] = Event("fetch", idx, total_files)}) < 2
       THEN /\ pc' = "fetch"
            /\ UNCHANGED <<success_count, downloaded_files, failed_files, results, events>>
       ELSE /\ IF call.ret
               THEN /\ success_count' = success_count + 1
                    /\ downloaded_files' = Append(downloaded_files, file_name)
                    /\ UNCHANGED failed_files
               ELSE /\ failed_files' = Append(failed_files, file_name)
                    /\ UNCHANGED <<success_count, downloaded_files>>
            /\ results' = Append(results, call)
            /\ events' = Append(events, Event("record", idx, total_files))
            /\ pc' = "progress"
    /\ UNCHANGED <<hasSession, localFiles, reruns, scenarioVars, inputVars, total_files, idx,
                   call, errors, report>>

\* lines 461-465: the returned bool decides the list the name goes to
Record ==
    /\ pc = "record"
    /\ IF call.ret
       THEN /\ success_count' = success_count + 1
            /\ downloaded_files' = Append(downloaded_files, file_name)
            /\ UNCHANGED failed_files
       ELSE /\ failed_files' = Append(failed_files, file_name)
            /\ UNCHANGED <<success_count, downloaded_files>>
    /\ results' = Append(results, call)
    /\ events' = Append(events, Event("record", idx, total_files))
    /\ pc' = "progress"
    /\ UNCHANGED <<hasSession, localFiles, reruns, scenarioVars, inputVars, total_files, idx,
                   call, errors, report>>

\* Progress that reports idx / total_files
ProgressOffByOne ==
    /\ pc = "progress"
    /\ events' = Append(events, Event("progress", idx, total_files))
    /\ idx' = idx + 1
    /\ pc' = IF idx + 1 < Len(selected_files) THEN "label" ELSE "report"
    /\ UNCHANGED <<hasSession, localFiles, reruns, scenarioVars, inputVars, success_count,
                   total_files, downloaded_files, failed_files, call, results, errors, report>>

\* Progress of a loop that gives up after the first failed file
ProgressStopsAtFailure ==
    /\ pc = "progress"
    /\ events' = Append(events, Event("progress", idx + 1, total_files))
    /\ idx' = idx + 1
    /\ pc' = IF idx + 1 < Len(selected_files) /\ call.ret THEN "label" ELSE "report"
    /\ UNCHANGED <<hasSession, localFiles, reruns, scenarioVars, inputVars, success_count,
                   total_files, downloaded_files, failed_files, call, results, errors, report>>

\* lines 467-469 and the loop header: progress (idx + 1) / total_files, then
\* the next row, or the final status after the last one
Progress ==
    /\ pc = "progress"
    /\ events' = Append(events, Event("progress", idx + 1, total_files))
    /\ idx' = idx + 1
    /\ pc' = IF idx + 1 < Len(selected_files) THEN "label" ELSE "report"
    /\ UNCHANGED <<hasSession, localFiles, reruns, scenarioVars, inputVars, success_count,
                   total_files, downloaded_files, failed_files, call, results, errors, report>>

\* lines 471-501: the final status block
ShowFinalStatus ==
    /\ pc = "report"
    /\ report' = IF success_count > 0
                 THEN [status |-> "complete",
                       shownDownloaded |-> downloaded_files,
                       shownFailed |-> failed_files]
                 ELSE [status |-> "failed", shownDownloaded |-> <<>>, shownFailed |-> <<>>]
    /\ pc' = "idle"
    /\ UNCHANGED <<hasSession, localFiles, reruns, scenarioVars, inputVars, success_count,
                   total_files, downloaded_files, failed_files, idx, call, results, events,
                   errors>>

Next ==
    \/ StartRerun
    \/ ConnectNew
    \/ ConnectFail
    \/ SessionReused
    \/ FolderValidated
    \/ FolderInvalid
    \/ FolderNotValidated
    \/ StagesLoaded
    \/ StagesFailed
    \/ FilesLoaded
    \/ FilesFailed
    \/ FilesSelected
    \/ ButtonNotPressed
    \/ StartDownload
    \/ LoopLabel
    \/ Makedirs
    \/ Fetch
    \/ ExistsCheck
    \/ Record
    \/ Progress
    \/ ShowFinalStatus

Spec == Init /\ [][Next]_vars

(***************************************************************************)
(* The same batch twice in a row: the run is at the download button with   *)
(* some selection and folder, the world answers each stage path the same   *)
(* way every time, and after the final status the user presses the button  *)
(* again with the same selection and folder.                               *)
(***************************************************************************)
\* what a run that reused its session has logged when it reaches the button
EventsAtButton(folder) ==
    (IF folder # <<>> THEN <<Event("validate", 1, 1)>> ELSE <<>>)
        \o <<Event("list_stages", 1, 1), Event("list_files", 1, 1)>>

InitTwice ==
    /\ hasSession = TRUE
    /\ reruns = 1
    /\ runNo = 1
    /\ prevSucceeded = {}
    /\ pc = "button"
    /\ download_folder \in FolderInputs
    /\ localFiles \in [FolderInputs -> SUBSET CatalogNames]
    /\ \A d \in FolderInputs : d # download_folder => localFiles[d] = {}
    /\ stages = <<"S1">>
    /\ selected_stage = "S1"
    /\ list_result = Pick(Catalog, 1..MaxListed)
    /\ files_df = get_stage_files(list_result)
    /\ \E keep \in (SUBSET DOMAIN files_df) \ {{}} : selected_files = Pick(files_df, keep)
    /\ env \in [fetch    : [DOMAIN AnyEnv.fetch -> {{o} : o \in FetchOutcomes}],
                makedirs : {[d \in FolderInputs |-> {TRUE}]},
                list     : {Listings}]
    /\ \A p \in DOMAIN env.fetch :
          (\A i \in DOMAIN selected_files : selected_files[i].FilePath # p) => env.fetch[p] = {"ok"}
    /\ success_count = 0
    /\ total_files = Len(files_df)
    /\ downloaded_files = <<>>
    /\ failed_files = <<>>
    /\ idx = 0
    /\ call = NoCall
    /\ results = <<>>
    /\ events = EventsAtButton(download_folder)
    /\ errors = <<>>
    /\ report = NoReport

\* the next script run, brought to the button with the same inputs
RunAgain ==
    /\ pc = "idle"
    /\ runNo = 1
    /\ report.status # "none"
    /\ runNo' = 2
    /\ prevSucceeded' = {downloaded_files[i] : i \in DOMAIN downloaded_files}
    /\ reruns' = reruns + 1
    /\ pc' = "button"
    /\ success_count' = 0
    /\ total_files' = Len(files_df)
    /\ downloaded_files' = <<>>
    /\ failed_files' = <<>>
    /\ idx' = 0
    /\ call' = NoCall
    /\ results' = <<>>
    /\ events' = EventsAtButton(download_folder)
    /\ errors' = <<>>
    /\ report' = NoReport
    /\ UNCHANGED <<hasSession, localFiles, env, inputVars>>

NextTwice ==
    \/ StartDownload
    \/ LoopLabel
    \/ Makedirs
    \/ Fetch
    \/ ExistsCheck
    \/ Record
    \/ Progress
    \/ ShowFinalStatus
    \/ RunAgain

SpecTwice == InitTwice /\ [][NextTwice]_vars

(***************************************************************************)
(* Vocabulary of the properties.                                           *)
(***************************************************************************)
LoopPcs == {"label", "makedirs", "fetch", "exists", "record", "progress"}

\* the batch has run to its final status block
BatchDone == pc = "idle" /\ report.status # "none"

\* names of the selected rows, in selection order
SelectedNames == [i \in DOMAIN selected_files |-> selected_files[i].FileName]

\* number of selected rows whose outcome has been recorded
Processed == IF pc = "progress" THEN idx + 1 ELSE idx

\* the fetch of a processed row failed: it raised, or left no file behind
FetchFailed(r) == ~Returned(r.out) \/ ~r.existsAfter

RECURSIVE Count(_, _)
Count(s, x) ==
    IF s = <<>> THEN 0 ELSE (IF Head(s) = x THEN 1 ELSE 0) + Count(Tail(s), x)

EventPositions(kind) == {p \in DOMAIN events : events[p].ev = kind}

TypeOK ==
    /\ hasSession \in BOOLEAN
    /\ pc \in {"idle", "connect", "folder", "stages", "files", "select", "button", "report"}
              \cup LoopPcs
    /\ idx \in 0..Len(selected_files)
    /\ success_count \in 0..Len(selected_files)

(***************************************************************************)
(* C1: when a batch over a non-empty selection has completed, whatever the *)
(* fetch outcomes were, the reported total is the number of selected files *)
(* and succeeded count + failed count = total.                             *)
(***************************************************************************)
C1_TotalsAddUp ==
    (BatchDone /\ Len(selected_files) > 0) =>
        /\ total_files = Len(selected_files)
        /\ success_count + Len(failed_files) = total_files

\* a completed batch that met a success, an exception and a silent no-file
C1_Witness ==
    /\ BatchDone
    /\ \E i, j, k \in DOMAIN results :
        /\ results[i].ret
        /\ results[j].out = "raise"
        /\ results[k].out = "none" /\ ~results[k].existsAfter

(***************************************************************************)
(* C2: a failed fetch never stops the batch: the final status is only      *)
(* reached after every selected file was attempted; and with 3 files whose *)
(* fetch fails for exactly the 2nd, total = 3, succeeded = 2, failed = 1,  *)
(* the failed list is the 2nd name and the succeeded list is the 1st then  *)
(* the 3rd name.                                                           *)
(***************************************************************************)
SecondOfThreeFails ==
    /\ Len(selected_files) = 3
    /\ Len(results) = 3
    /\ \A i \in 1..3 : results[i].out # "nocall"
    /\ ~FetchFailed(results[1])
    /\ FetchFailed(results[2])
    /\ ~FetchFailed(results[3])

C2_FailureIsolation ==
    /\ (pc = "report" \/ BatchDone) =>
          /\ idx = Len(selected_files)
          /\ Len(results) = Len(selected_files)
          /\ \A i \in DOMAIN selected_files :
                \E p \in EventPositions("label") : events[p].i = i - 1
    /\ (BatchDone /\ SecondOfThreeFails) =>
          /\ total_files = 3
          /\ success_count = 2
          /\ Len(failed_files) = 1
          /\ failed_files = <<SelectedNames[2]>>
          /\ downloaded_files = <<SelectedNames[1], SelectedNames[3]>>

C2_Witness == BatchDone /\ SecondOfThreeFails /\ results[2].out = "raise"

(***************************************************************************)
(* C4: a processed file is in the succeeded list exactly when its fetch    *)
(* was called, returned without raising and the local file existed right   *)
(* after the call; otherwise it is in the failed list.                     *)
(***************************************************************************)
FetchedAndPresent(r) == Returned(r.out) /\ r.existsAfter

C4_SucceededIffFetchedAndPresent ==
    /\ downloaded_files =
          Pick(SelectedNames, {i \in DOMAIN results : FetchedAndPresent(results[i])})
    /\ failed_files =
          Pick(SelectedNames, {i \in DOMAIN results : ~FetchedAndPresent(results[i])})

\* one file raised although its file is there, one returned and left no
\* file, one returned and left its file
C4_Witness ==
    /\ BatchDone
    /\ \E i, j, k \in DOMAIN results :
        /\ results[i].out = "partial" /\ results[i].existsAfter
        /\ results[j].out = "none" /\ ~results[j].existsAfter
        /\ results[k].out = "ok"

(***************************************************************************)
(* C6: the succeeded list and the failed list are each in selection order: *)
(* each is the selection's names restricted to the rows that went to it.   *)
(***************************************************************************)
C6_ListsInSelectionOrder ==
    /\ downloaded_files = Pick(SelectedNames, {i \in DOMAIN results : results[i].ret})
    /\ failed_files = Pick(SelectedNames, {i \in DOMAIN results : ~results[i].ret})

\* two different names in the succeeded list
C6_Witness ==
    /\ BatchDone
    /\ Len(downloaded_files) >= 2
    /\ downloaded_files[1] # downloaded_files[2]

(***************************************************************************)
(* C7: at every point of a run, with k files processed, the succeeded and  *)
(* failed lists together hold exactly the first k selected records, each   *)
(* once, and none of the others; succeeded + failed = k; so the sum equals *)
(* the total exactly when all selected files are processed.                *)
(***************************************************************************)
C7_NothingSkipped ==
    LET k == Processed
        both == downloaded_files \o failed_files
    IN  /\ k <= Len(selected_files)
        /\ Len(both) = k
        /\ \A name \in CatalogNames :
              Count(both, name) = Count(SubSeq(SelectedNames, 1, k), name)
        /\ success_count = Len(downloaded_files)
        /\ success_count + Len(failed_files) = k
        /\ pc \in LoopPcs =>
              ((success_count + Len(failed_files) = total_files) <=> (k = Len(selected_files)))

\* in the middle of a batch of three, after one failure
C7_Witness ==
    /\ pc = "fetch"
    /\ Len(selected_files) = 3
    /\ idx = 1
    /\ Len(failed_files) = 1

(***************************************************************************)
(* C8: within one run the fetch calls are for strictly increasing          *)
(* selection indices (at most one per record, in selection order), the     *)
(* fetch for a record only happens after the outcome of every earlier      *)
(* record was recorded, and no record is fetched after its outcome was     *)
(* recorded (no retry).                                                    *)
(***************************************************************************)
C8_SequentialNoRetry ==
    /\ \A p, q \in EventPositions("fetch") : p < q => events[p].i < events[q].i
    /\ \A p \in EventPositions("fetch") :
          \A j \in 0..(events[p].i - 1) :
             \E r \in EventPositions("record") : r < p /\ events[r].i = j
    /\ \A p \in EventPositions("fetch") :
          \A r \in EventPositions("record") : events[r].i = events[p].i => p < r

\* three fetch calls in one batch, the first of which failed
C8_Witness ==
    /\ BatchDone
    /\ Cardinality(EventPositions("fetch")) = 3
    /\ results[1].out = "raise"

(***************************************************************************)
(* C10: the download loop, and any fetch call, only runs with at least one *)
(* selected file, a non-empty stage list and a non-empty file listing.     *)
(***************************************************************************)
C10_NeverOnEmptySelection ==
    (\/ pc \in LoopPcs \cup {"report"}
     \/ EventPositions("progress_bar") # {}
     \/ EventPositions("fetch") # {}) =>
        /\ Len(selected_files) > 0
        /\ Len(stages) > 0
        /\ Len(files_df) > 0

\* a fetch call is being made for the only selected file of a longer listing
C10_Witness ==
    /\ pc = "fetch"
    /\ Len(selected_files) = 1
    /\ Len(files_df) > 1

(***************************************************************************)
(* C3: whenever creation of the destination directory failed in a run, at  *)
(* validation or at download time, for an entered or an empty folder, no   *)
(* fetch call was made and the run ended with the single fatal folder      *)
(* error instead of a final status with counts.                            *)
(***************************************************************************)
MakedirsFailed ==
    \/ \E p \in EventPositions("validate") : events[p].i = 0
    \/ \E i \in DOMAIN results : ~results[i].mk

C3_DestinationFailureShortCircuits ==
    (pc = "idle" /\ MakedirsFailed) =>
        /\ EventPositions("fetch") = {}
        /\ report.status = "none"
        /\ errors = <<[kind |-> "invalid_folder", arg |-> <<>>]>>

(***************************************************************************)
(* C5: in every completed batch each name of the failed list is displayed  *)
(* in the final status block, also when no file succeeded.                 *)
(***************************************************************************)
C5_FailuresInFinalReport ==
    BatchDone =>
        \A i \in DOMAIN failed_files :
           \E j \in DOMAIN report.shownFailed : report.shownFailed[j] = failed_files[i]

(***************************************************************************)
(* C9: the second of two batches in a row, with the same selection, the    *)
(* same folder and a fetch that answers each file as it did the first      *)
(* time, reports the same set of succeeded file names as the first.        *)
(***************************************************************************)
C9_SameSucceededSetTwice ==
    (runNo = 2 /\ BatchDone) =>
        {downloaded_files[i] : i \in DOMAIN downloaded_files} = prevSucceeded

(***************************************************************************)
(* One-row listings over every short stage path: the run is at the file    *)
(* listing, LIST returns one row whose path is any string of up to         *)
(* MaxPathLen characters, and the run goes on to select and download it.   *)
(***************************************************************************)
PathChars == {"/", ".", "a", "B"}

RECURSIVE StringsUpTo(_)
StringsUpTo(n) ==
    IF n = 0 THEN {<<>>}
    ELSE LET shorter == StringsUpTo(n - 1)
         IN  shorter \cup {Append(t, c) : t \in shorter, c \in PathChars}

StagePaths == StringsUpTo(MaxPathLen) \ {<<>>}

InitListing ==
    /\ hasSession = TRUE
    /\ localFiles = [d \in FolderInputs |-> {}]
    /\ env = [fetch    |-> [p \in StagePaths |-> FetchOutcomes],
              makedirs |-> AnyEnv.makedirs,
              list     |-> {<<p>> : p \in StagePaths}]
    /\ reruns = 1
    /\ runNo = 0
    /\ prevSucceeded = {}
    /\ pc = "files"
    /\ download_folder = <<"D">>
    /\ stages = <<"S1", "S2">>
    /\ selected_stage = "S1"
    /\ list_result = <<>>
    /\ files_df = <<>>
    /\ selected_files = <<>>
    /\ success_count = 0
    /\ total_files = 0
    /\ downloaded_files = <<>>
    /\ failed_files = <<>>
    /\ idx = 0
    /\ call = NoCall
    /\ results = <<>>
    /\ events = <<Event("validate", 1, 1), Event("list_stages", 1, 1)>>
    /\ errors = <<>>
    /\ report = NoReport

NextListing ==
    \/ FilesLoaded
    \/ FilesSelected
    \/ StartDownload
    \/ LoopLabel
    \/ Makedirs
    \/ Fetch
    \/ ExistsCheck
    \/ Record
    \/ Progress
    \/ ShowFinalStatus

SpecListing == InitListing /\ [][NextListing]_vars

\* position of the last c in s, 0 if there is none
LastIndexOf(s, c) ==
    IF Contains(s, c)
    THEN CHOOSE i \in DOMAIN s : s[i] = c /\ \A j \in DOMAIN s : s[j] = c => j <= i
    ELSE 0

\* what follows the last c in s
AfterLast(s, c) == SubSeq(s, LastIndexOf(s, c) + 1, Len(s))

UpperToLower == {<<"A", "a">>, <<"B", "b">>, <<"C", "c">>, <<"T", "t">>}

\* t is s with every upper-case letter replaced by its lower-case letter
IsLowercaseOf(t, s) ==
    /\ Len(t) = Len(s)
    /\ \A i \in DOMAIN s :
          IF \E ul \in UpperToLower : ul[1] = s[i]
          THEN <<s[i], t[i]>> \in UpperToLower
          ELSE t[i] = s[i]

(***************************************************************************)
(* C11: for every listed file, type is the lower case of what follows the  *)
(* last '.' of its name, or "unknown" if the name has no '.'; also for     *)
(* names that start or end with '.' and names with several dots.           *)
(***************************************************************************)
C11_TypeFromExtension ==
    \A i \in DOMAIN files_df :
       LET name == files_df[i].FileName
           type == files_df[i].FileType
       IN  IF Contains(name, ".")
           THEN IsLowercaseOf(type, AfterLast(name, "."))
           ELSE type = unknown

\* a listed name with two dots that starts with '.' and has an upper-case
\* extension
C11_Witness ==
    /\ Len(files_df) = 1
    /\ files_df[1].FileName = <<".", "a", ".", "B">>
    /\ files_df[1].FileType = <<"b">>

(***************************************************************************)
(* C12: for every row of the listing, name is what follows the last '/' of *)
(* the path, or the whole path if it has no '/', and the path itself is    *)
(* kept unchanged and is the address every fetch of that row uses.         *)
(***************************************************************************)
C12_NameFromPath ==
    /\ Len(files_df) = Len(list_result)
    /\ \A i \in DOMAIN files_df :
          /\ files_df[i].FilePath = list_result[i]
          /\ files_df[i].FileName =
                IF Contains(list_result[i], "/") THEN AfterLast(list_result[i], "/")
                ELSE list_result[i]
    /\ \A k \in DOMAIN results :
          results[k].out # "nocall" =>
             /\ results[k].addr = <<"@">> \o selected_files[k].FilePath
             /\ \E i \in DOMAIN list_result : list_result[i] = selected_files[k].FilePath

\* a row under two prefixes was fetched by its full path
C12_Witness ==
    /\ Len(results) = 1
    /\ list_result = << <<"a", "/", "/", "B">> >>
    /\ selected_files[1].FileName = <<"B">>
    /\ results[1].addr = <<"@", "a", "/", "/", "B">>

(***************************************************************************)
(* C13: a LIST that returns no rows gives an empty frame and shows no      *)
(* error; a LIST that fails shows an error and the run goes no further; so *)
(* the two outcomes differ in what the run shows.                          *)
(***************************************************************************)
ListingErrorShown == \E e \in DOMAIN errors : errors[e].kind = "files_error"

C13_EmptyListingIsNoError ==
    /\ \A p \in EventPositions("list_files") :
          (events[p].i = 1 /\ list_result = <<>>) =>
             /\ files_df = <<>>
             /\ ~ListingErrorShown
             /\ pc = "idle"
             /\ p = Len(events)
    /\ \A p \in EventPositions("list_files") :
          events[p].i = 0 =>
             /\ files_df = <<>>
             /\ ListingErrorShown
             /\ pc = "idle"
             /\ p = Len(events)

\* the stage had no files: the run has ended and shows no error at all
C13_Witness ==
    /\ \E p \in EventPositions("list_files") : events[p].i = 1
    /\ list_result = <<>>
    /\ files_df = <<>>
    /\ errors = <<>>
    /\ pc = "idle"

(***************************************************************************)
(* C14: in a batch of n files the label of the file at index i is shown    *)
(* before its fetch is called, the progress (i+1)/n is shown after its     *)
(* outcome was recorded, succeeded or failed; the fractions are strictly   *)
(* increasing and within [0,1], and a completed batch has shown exactly n  *)
(* of them, the last being 1.                                              *)
(***************************************************************************)
C14_ProgressReporting ==
    /\ \A p \in EventPositions("fetch") :
          \E l \in EventPositions("label") : l < p /\ events[l].i = events[p].i
    /\ \A p \in EventPositions("progress") :
          /\ events[p].n = Len(selected_files)
          /\ events[p].i >= 0
          /\ events[p].i <= events[p].n
          /\ \E r \in EventPositions("record") : r < p /\ events[r].i + 1 = events[p].i
    /\ \A p, q \in EventPositions("progress") :
          p < q => events[p].i * events[q].n < events[q].i * events[p].n
    /\ \A r \in EventPositions("record") :
          (pc # "progress" \/ events[r].i < idx) =>
             \E p \in EventPositions("progress") : r < p /\ events[p].i = events[r].i + 1
    /\ BatchDone =>
          /\ Cardinality(EventPositions("progress")) = Len(selected_files)
          /\ Last(events).ev = "progress"
          /\ Last(events).i = Last(events).n

\* a completed batch of three in which a file failed and a file succeeded
C14_Witness ==
    /\ BatchDone
    /\ Len(selected_files) = 3
    /\ Len(failed_files) >= 1
    /\ success_count >= 1

(***************************************************************************)
(* C15: over any sequence of script runs, connect is only called while no  *)
(* session is stored; once a session is stored it stays stored and connect *)
(* is never called again; and a run whose connect failed stores no session *)
(* and lists no stages, lists no files and fetches nothing.                *)
(***************************************************************************)
ConnectCalled == events' # events /\ events' # <<>> /\ Last(events').ev = "connect"

ConnectFailedInRun == \E p \in EventPositions("connect") : events[p].i = 0

C15_SessionLifecycle ==
    /\ [][/\ ConnectCalled => ~hasSession
          /\ hasSession => hasSession'
          /\ hasSession' # hasSession => (ConnectCalled /\ Last(events').i = 1)]_vars
    /\ [](ConnectFailedInRun =>
            /\ ~hasSession
            /\ pc = "idle"
            /\ EventPositions("list_stages") = {}
            /\ EventPositions("list_files") = {}
            /\ EventPositions("fetch") = {})

\* a later run fetches with the stored session, without having connected
C15_Witness ==
    /\ reruns = 2
    /\ hasSession
    /\ EventPositions("connect") = {}
    /\ EventPositions("fetch") # {}

====
